---- MODULE Spec2Model ----
(***************************************************************************)
(* Vocapy / ScriptVocab: vocabulary extraction and chunked translation.    *)
(*                                                                         *)
(* Two variants of the pipeline are modelled:                              *)
(*   "lib"  the ScriptVocab controller of src/script_vocab/script_vocab.py *)
(*          (input_text, run, translate_dictionary, translate_chunk,       *)
(*          translate_text, __exit__);                                     *)
(*   "cli"  the module-level functions of src/ScriptVocab.py               *)
(*          (create_dictionary, translate_dictionary).                     *)
(* Strings are sequences of one-character strings.  A run is split into    *)
(* steps at its blocking operations (connectivity probe + service call,    *)
(* time.sleep); `log` records those operations in the order they happen.   *)
(***************************************************************************)
EXTENDS Integers, Sequences, FiniteSets, TLC

VARIABLES
    variant,          \* "lib" | "cli": which implementation this behaviour runs
    config,           \* ScriptVocabConfig (+ the chunk size handed to translate_dictionary)
    all_words,        \* self.all_words / main's all_words
    output,           \* self.output
    pc,               \* position of the controller / of the CLI function
    words_dict,       \* run's words_dict / translate_dictionary's input dict: <<word, count>> items in iteration order
    chunks,           \* translate_dictionary's chunks
    chunk_idx,        \* 1-based index of the chunk being translated
    attempt,          \* translate_chunk's loop variable
    translated_dict,  \* translate_dictionary's translated_dict (function word -> translation)
    log,              \* probes, service calls, sleeps, returns and raises of the current translate operation
    output_before,    \* self.output as it was when run() was entered
    exc,              \* exception raised by run() / translate_dictionary ("none" if none)
    caller_exc,       \* exception that leaves the with-block of the caller, or the server's handler
    response,         \* what get_output_as_json returned ("unset" before the call, "None" for None)
    request,          \* the /translate request served: its text, its file, its status
    in_lines,         \* argument of the text function under study (a list of strings)
    fn,               \* the text function that was applied ("none" before the call)
    fn_result,        \* what that function returned, or the exception it raised
    controllers,      \* the server's heap: the ScriptVocab objects constructed so far
    requests,         \* the /translate requests the server is serving concurrently
    disk              \* the input files of the run: the bytes of each, in processing order

fn_vars == <<in_lines, fn, fn_result>>

env_vars == <<controllers, requests, disk>>

vars == <<variant, config, all_words, output, pc, words_dict, chunks, chunk_idx,
          attempt, translated_dict, log, output_before, exc, caller_exc,
          response, request, in_lines, fn, fn_result, controllers, requests, disk>>

(***************************************************************************)
(* Bounds                                                                  *)
(***************************************************************************)
MaxWords == 3           \* longest token list accumulated in all_words
MaxTextWords == 2       \* most raw words in one input text
MaxChunkSize == 2       \* largest chunk size
MaxMinAppearance == 2   \* largest min_appearance threshold
MaxExtraLines == 1      \* a service response has at most this many lines more than the request

(***************************************************************************)
(* Characters and strings                                                  *)
(***************************************************************************)
LowerLetters == <<"a","b","c","d","e","f","g","h","i","j","k","l","m",
                  "n","o","p","q","r","s","t","u","v","w","x","y","z">>
UpperLetters == <<"A","B","C","D","E","F","G","H","I","J","K","L","M",
                  "N","O","P","Q","R","S","T","U","V","W","X","Y","Z">>
Digits == {"0","1","2","3","4","5","6","7","8","9"}
Whitespace == {" ", "\t", "\n", "\r"}

Range(s) == {s[i] : i \in DOMAIN s}
Min(a, b) == IF a < b THEN a ELSE b

IsLower(c) == c \in Range(LowerLetters)
IsUpper(c) == c \in Range(UpperLetters)
IsAsciiLetter(c) == IsLower(c) \/ IsUpper(c)

\* lowercase letters outside ASCII (each is one character; "e_acute" stands for U+00E9)
NonAsciiLetters == {"e_acute"}

\* str.isalpha() on one character
IsAlpha(c) == IsAsciiLetter(c) \/ c \in NonAsciiLetters

\* \w of a str pattern: Unicode letters, digits and the underscore
IsWordChar(c) == IsAlpha(c) \/ c \in Digits \/ c = "_"

\* str.lower() on one character
lower_char(c) ==
    IF IsUpper(c)
    THEN LowerLetters[CHOOSE i \in DOMAIN UpperLetters : UpperLetters[i] = c]
    ELSE c

\* str.lower()
lower(s) == [i \in DOMAIN s |-> lower_char(s[i])]

\* str.strip()
RECURSIVE lstrip(_)
lstrip(s) == IF s # <<>> /\ Head(s) \in Whitespace THEN lstrip(Tail(s)) ELSE s

RECURSIVE rstrip(_)
rstrip(s) ==
    IF s # <<>> /\ s[Len(s)] \in Whitespace THEN rstrip(SubSeq(s, 1, Len(s) - 1)) ELSE s

strip(s) == rstrip(lstrip(s))

\* str.isnumeric(): non-empty and every character numeric
isnumeric(s) == s # <<>> /\ \A i \in DOMAIN s : s[i] \in Digits

\* re.match(r"^\d{1,2}:\d{2}:\d{2},\d{3}", line)
matches_timestamp(s) ==
    \E n \in 1..2 :
        /\ Len(s) >= n + 10
        /\ \A i \in 1..n : s[i] \in Digits
        /\ s[n + 1] = ":"
        /\ s[n + 2] \in Digits /\ s[n + 3] \in Digits
        /\ s[n + 4] = ":"
        /\ s[n + 5] \in Digits /\ s[n + 6] \in Digits
        /\ s[n + 7] = ","
        /\ s[n + 8] \in Digits /\ s[n + 9] \in Digits /\ s[n + 10] \in Digits

\* ScriptVocab.has_no_text
has_no_text(line) ==
    LET stripped == strip(line)
        is_empty_or_numeric == stripped = <<>> \/ isnumeric(stripped)
        contains_no_letters == ~ \E i \in DOMAIN stripped : IsAsciiLetter(stripped[i])
    IN  is_empty_or_numeric \/ matches_timestamp(stripped) \/ contains_no_letters

\* re.findall(r"\b\w+\b", text): the maximal runs of word characters, left to right
RECURSIVE scan_words(_, _, _)
scan_words(text, i, cur) ==
    LET flush == IF cur = <<>> THEN <<>> ELSE <<cur>>
    IN  IF i > Len(text) THEN flush
        ELSE IF IsWordChar(text[i]) THEN scan_words(text, i + 1, Append(cur, text[i]))
        ELSE flush \o scan_words(text, i + 1, <<>>)

findall_words(text) == scan_words(text, 1, <<>>)

create_word_list_from_text_tail(text, min_word_size) ==
    LET words == findall_words(text)
        Keep(word) == ~ has_no_text(word) /\ Len(word) >= min_word_size
        kept == SelectSeq(words, Keep)
    IN  [i \in 1..(Len(kept) - 1) |-> lower(kept[i + 1])]

create_word_list_from_text_gt(text, min_word_size) ==
    LET words == findall_words(text)
        Keep(word) == ~ has_no_text(word) /\ Len(word) > min_word_size
        kept == SelectSeq(words, Keep)
    IN  [i \in DOMAIN kept |-> lower(kept[i])]

\* ScriptVocab.create_word_list_from_text
create_word_list_from_text(text, min_word_size) ==
    LET words == findall_words(text)
        Keep(word) == ~ has_no_text(word) /\ Len(word) >= min_word_size
        kept == SelectSeq(words, Keep)
    IN  [i \in DOMAIN kept |-> lower(kept[i])]

\* str(n) for a natural number
RECURSIVE str_int(_)
str_int(n) ==
    LET digit(d) == CHOOSE c \in Digits :
                        c = <<"0","1","2","3","4","5","6","7","8","9">>[d + 1]
    IN  IF n < 10 THEN <<digit(n)>> ELSE str_int(n \div 10) \o <<digit(n % 10)>>

(***************************************************************************)
(* Frequency aggregation                                                   *)
(***************************************************************************)
\* collections.Counter(words).items(): first-occurrence order, with counts
RECURSIVE Counter(_)
Counter(words) ==
    IF words = <<>> THEN <<>>
    ELSE LET prev == Counter(SubSeq(words, 1, Len(words) - 1))
             w == words[Len(words)]
         IN  IF \E i \in DOMAIN prev : prev[i][1] = w
             THEN [i \in DOMAIN prev |->
                      IF prev[i][1] = w THEN <<w, prev[i][2] + 1>> ELSE prev[i]]
             ELSE Append(prev, <<w, 1>>)

\* a descending sort that puts a later item before the earlier ones of equal count
RECURSIVE sorted_ties_reversed(_)
sorted_ties_reversed(items) ==
    IF items = <<>> THEN <<>>
    ELSE LET rest == sorted_ties_reversed(SubSeq(items, 1, Len(items) - 1))
             it == items[Len(items)]
             k == Cardinality({i \in DOMAIN rest : rest[i][2] > it[2]})
         IN  SubSeq(rest, 1, k) \o <<it>> \o SubSeq(rest, k + 1, Len(rest))

\* sorted(items, key=lambda item: item[1], reverse=True): stable, descending by count
RECURSIVE sorted_by_count_desc(_)
sorted_by_count_desc(items) ==
    IF items = <<>> THEN <<>>
    ELSE LET rest == sorted_by_count_desc(SubSeq(items, 1, Len(items) - 1))
             it == items[Len(items)]
             \* it goes after every element whose count is >= its own
             k == Cardinality({i \in DOMAIN rest : rest[i][2] >= it[2]})
         IN  SubSeq(rest, 1, k) \o <<it>> \o SubSeq(rest, k + 1, Len(rest))

create_dictionary_gt(words, min_appearance) ==
    LET Keep(item) == item[2] > min_appearance
    IN  sorted_by_count_desc(SelectSeq(Counter(words), Keep))

\* ScriptVocab.create_dictionary
create_dictionary(words, min_appearance) ==
    LET Keep(item) == item[2] >= min_appearance
    IN  sorted_by_count_desc(SelectSeq(Counter(words), Keep))

\* create_dictionary of src/ScriptVocab.py
cli_create_dictionary(words, min_appearance) ==
    LET Keep(item) == item[2] >= min_appearance
    IN  sorted_by_count_desc(SelectSeq(Counter(words), Keep))

\* list(dictionary.keys())
keys(dictionary) == [i \in DOMAIN dictionary |-> dictionary[i][1]]

(***************************************************************************)
(* Translation helpers                                                     *)
(***************************************************************************)
Placeholder == <<"p","l","a","c","e","h","o","l","d","e","r">>

\* "\n".join(chunk)
RECURSIVE join_lines(_)
join_lines(lines) ==
    IF lines = <<>> THEN <<>>
    ELSE IF Len(lines) = 1 THEN lines[1]
    ELSE lines[1] \o <<"\n">> \o join_lines(Tail(lines))

\* s.split("\n"): always at least one element
RECURSIVE split_scan(_, _, _)
split_scan(s, i, cur) ==
    IF i > Len(s) THEN <<cur>>
    ELSE IF s[i] = "\n" THEN <<cur>> \o split_scan(s, i + 1, <<>>)
    ELSE split_scan(s, i + 1, Append(cur, s[i]))

split_lines(s) == split_scan(s, 1, <<>>)

convert_to_chunks_short(words_list, chunk_size) ==
    LET n == Len(words_list)
        starts == {i \in 0..(n - 1) : i % (chunk_size + 1) = 0}
    IN  [k \in 1..Cardinality(starts) |->
            SubSeq(words_list, (k - 1) * (chunk_size + 1) + 1,
                   Min((k - 1) * (chunk_size + 1) + chunk_size, n))]

\* ScriptVocab.convert_to_chunks: words_list[i : i + chunk_size] for i in range(0, n, chunk_size)
convert_to_chunks(words_list, chunk_size) ==
    LET n == Len(words_list)
        starts == {i \in 0..(n - 1) : i % chunk_size = 0}
    IN  [k \in 1..Cardinality(starts) |->
            SubSeq(words_list, (k - 1) * chunk_size + 1, Min(k * chunk_size, n))]

\* dict(zip(chunk, translated_words)): truncated to the shorter, last pair wins
zip_dict(chunk, translated_words) ==
    LET n == Min(Len(chunk), Len(translated_words))
    IN  [w \in {chunk[i] : i \in 1..n} |->
            translated_words[CHOOSE i \in 1..n :
                /\ chunk[i] = w
                /\ \A j \in 1..n : chunk[j] = w => j <= i]]

dict_replace(d, new) == new

\* translated_dict.update(new)
dict_update(d, new) ==
    [w \in (DOMAIN d) \cup (DOMAIN new) |-> IF w \in DOMAIN new THEN new[w] ELSE d[w]]

\* translated_dict.get(word, "")
dict_get(d, word) == IF word \in DOMAIN d THEN d[word] ELSE <<>>

EmptyDict == [w \in {} |-> <<>>]

format_row_word_first(count, word, translation) ==
    word \o <<",", " ">> \o str_int(count) \o <<",", " ">> \o translation

\* f"{count}, {word}, {translation}"
format_row(count, word, translation) ==
    str_int(count) \o <<",", " ">> \o word \o <<",", " ">> \o translation

output_rows_translated_only(dictionary, translations) ==
    LET Has(item) == item[1] \in DOMAIN translations
        items == SelectSeq(dictionary, Has)
    IN  [i \in DOMAIN items |->
            format_row(items[i][2], items[i][1], dict_get(translations, items[i][1]))]

\* the rows run() appends: one per item of words_dict, in its order
output_rows(dictionary, translations) ==
    [i \in DOMAIN dictionary |->
        format_row(dictionary[i][2], dictionary[i][1],
                   dict_get(translations, dictionary[i][1]))]

offline_translation_single(chunk) == IF chunk = <<>> THEN <<>> ELSE <<Placeholder>>

\* translate_text's offline branch: one "placeholder" per word of the chunk
offline_translation(chunk) == [i \in DOMAIN chunk |-> Placeholder]

retries_never(n) == FALSE

retries_always(n) == TRUE

\* translate_chunk's handler: `if attempt < 1` sleeps and retries, else raises
retries(n) == n < 1

MaxAttempts == 2    \* range(2)

(***************************************************************************)
(* The log of blocking operations                                          *)
(***************************************************************************)
Event(e, ok, batch, data) == [ev |-> e, ok |-> ok, batch |-> batch, data |-> data]
Probe(up, chunk) == Event("probe", up, chunk, <<>>)          \* is_internet_available()
CallOk(chunk, resp) == Event("call", TRUE, chunk, resp)      \* the service returned the string resp
CallFail(chunk) == Event("call", FALSE, chunk, <<>>)         \* the service raised
Return(chunk, result) == Event("return", TRUE, chunk, result) \* translate_chunk returned result
Raise(chunk) == Event("raise", FALSE, chunk, <<>>)           \* translate_chunk raised
Backoff(chunk) == Event("backoff", TRUE, chunk, <<>>)        \* time.sleep(wait_time) before the retry
Pace == Event("pace", TRUE, <<>>, <<>>)                      \* time.sleep between chunks

no_backoff(chunk) == <<>>

\* time.sleep(wait_time) in translate_chunk's handler
backoff_wait(chunk) == <<Backoff(chunk)>>

no_pace == <<>>

pace_wait_twice == <<Pace, Pace>>

\* time.sleep(2)  # rate limiter
pace_wait == <<Pace>>

IsWait(e) == e.ev \in {"backoff", "pace"}

(***************************************************************************)
(* Structured output                                                       *)
(***************************************************************************)
\* line.split(","): always at least one element
RECURSIVE split_comma_scan(_, _, _)
split_comma_scan(s, i, cur) ==
    IF i > Len(s) THEN <<cur>>
    ELSE IF s[i] = "," THEN <<cur>> \o split_comma_scan(s, i + 1, <<>>)
    ELSE split_comma_scan(s, i + 1, Append(cur, s[i]))

split_comma(s) == split_comma_scan(s, 1, <<>>)

\* the record get_output_as_json builds from the three items of a line
json_obj(line_items) ==
    [occurrences |-> strip(line_items[1]),
     original_text |-> strip(line_items[2]),
     translated_text |-> strip(line_items[3])]

RECURSIVE json_scan_skip(_, _, _)
json_scan_skip(rows, i, resp) ==
    IF i > Len(rows) THEN resp
    ELSE LET line_items == split_comma(rows[i])
         IN  IF Len(line_items) # 3
             THEN json_scan_skip(rows, i + 1, resp)
             ELSE json_scan_skip(rows, i + 1, Append(resp, json_obj(line_items)))

\* the loop of get_output_as_json from row i on, with the records built so far
RECURSIVE json_scan(_, _, _)
json_scan(rows, i, resp) ==
    IF i > Len(rows) THEN resp
    ELSE LET line_items == split_comma(rows[i])
         IN  IF Len(line_items) # 3
             THEN "None"
             ELSE json_scan(rows, i + 1, Append(resp, json_obj(line_items)))

(***************************************************************************)
(* Inputs                                                                  *)
(***************************************************************************)
RawWords == {<<"a">>, <<"b">>, <<"c">>, <<"A">>, <<"7">>}   \* words an input text is made of
Tokens == {<<"a">>, <<"b">>, <<"c">>}                       \* the tokens those words yield
ServiceLines == {<<"x">>, <<"y">>}                          \* lines the translation service answers with

SeqsUpTo(S, n) == UNION {[1..k -> S] : k \in 0..n}

\* " ".join(ws)
RECURSIVE join_space(_)
join_space(ws) ==
    IF ws = <<>> THEN <<>>
    ELSE IF Len(ws) = 1 THEN ws[1]
    ELSE ws[1] \o <<" ">> \o join_space(Tail(ws))

Texts == {join_space(ws) : ws \in SeqsUpTo(RawWords, MaxTextWords)}

\* the strings the service may answer a request of n lines with
Responses(n) ==
    {join_lines(ls) : ls \in UNION {[1..k -> ServiceLines] : k \in 1..(n + MaxExtraLines)}}

(***************************************************************************)
(* Initial state: a freshly constructed controller / a CLI process about   *)
(* to call create_dictionary                                               *)
(***************************************************************************)
\* no request: the controller is used as a library
NoRequest == [status |-> "none", text |-> <<>>, file |-> <<>>]

\* the contents of the files uploaded to the server
UploadedFiles == {<<>>, <<"a">>}

Init ==
    /\ variant \in {"lib", "cli"}
    /\ config \in [min_word_size : {1},
                   min_appearance : 1..MaxMinAppearance,
                   chunk_size : 1..MaxChunkSize]
    /\ all_words = <<>>
    /\ output = <<>>
    /\ pc = "idle"
    /\ words_dict = <<>>
    /\ chunks = <<>>
    /\ chunk_idx = 1
    /\ attempt = 0
    /\ translated_dict = EmptyDict
    /\ log = <<>>
    /\ output_before = <<>>
    /\ exc = "none"
    /\ caller_exc = "none"
    /\ response = "unset"
    /\ request = NoRequest
    /\ controllers = <<>>
    /\ requests = <<>>
    /\ disk = <<>>
    /\ in_lines = <<>>
    /\ fn = "none"
    /\ fn_result = <<>>

(***************************************************************************)
(* Library variant: ScriptVocab                                            *)
(***************************************************************************)
\* ScriptVocab.input_text
input_text(text) ==
    /\ variant = "lib"
    /\ pc = "idle"
    /\ request.status = "none"
    /\ LET words == create_word_list_from_text(text, config.min_word_size)
       IN  /\ Len(all_words) + Len(words) <= MaxWords
           /\ all_words' = all_words \o words
    /\ UNCHANGED <<variant, config, output, pc, words_dict, chunks, chunk_idx, attempt,
                   translated_dict, log, output_before, exc, caller_exc>>
    /\ UNCHANGED <<response, request, fn_vars, env_vars>>

\* `not text` in the server's handler
no_text_never(text) == FALSE

no_text(text) == text = <<>>

\* str(content) of the bytes read from the uploaded file
str_bytes(content) == <<"b", "'">> \o content \o <<"'">>

\* translate_text of src/api/server.py up to run(): the request carries a text
\* (<<>> when the field is absent) and a file (<<>> for None, <<content>> otherwise);
\* the request's configuration is the one drawn in Init.  Without text the handler
\* raises ValueError; otherwise process_text gives the text to a new controller.
\* run(), get_output_as_json() and the exit of the `with` block follow as for the library.
translate_text(text, file) ==
    /\ variant = "lib"
    /\ pc = "idle"
    /\ request.status = "none"
    /\ all_words = <<>>
    /\ LET given == IF file # <<>> THEN str_bytes(file[1]) ELSE text
       IN  IF no_text(given)
           THEN /\ request' = [status |-> "rejected", text |-> text, file |-> file]
                /\ pc' = "rejected"
                /\ caller_exc' = "ValueError"
                /\ UNCHANGED all_words
           ELSE /\ request' = [status |-> "accepted", text |-> text, file |-> file]
                /\ all_words' = create_word_list_from_text(given, config.min_word_size)
                /\ Len(all_words') <= MaxWords
                /\ UNCHANGED <<pc, caller_exc>>
    /\ UNCHANGED <<variant, config, output, words_dict, chunks, chunk_idx, attempt,
                   translated_dict, log, output_before, exc>>
    /\ UNCHANGED <<response, fn_vars, env_vars>>

\* ScriptVocab.run up to the first translation attempt: create_dictionary, then
\* translate_dictionary's convert_to_chunks; with no chunk, run completes at once
run ==
    /\ variant = "lib"
    /\ pc = "idle"
    /\ LET d == create_dictionary(all_words, config.min_appearance)
           cs == convert_to_chunks(keys(d), config.chunk_size)
       IN  /\ words_dict' = d
           /\ chunks' = cs
           /\ IF cs = <<>>
              THEN /\ output' = output \o output_rows(d, EmptyDict)
                   /\ pc' = "done"
              ELSE /\ output' = output
                   /\ pc' = "attempt"
    /\ output_before' = output
    /\ translated_dict' = EmptyDict
    /\ chunk_idx' = 1
    /\ attempt' = 0
    /\ log' = <<>>
    /\ UNCHANGED <<variant, config, all_words, exc, caller_exc>>
    /\ UNCHANGED <<response, request, fn_vars, env_vars>>

\* translate_text when is_internet_available() is False: no service call, placeholders;
\* translate_chunk returns them and translate_dictionary updates translated_dict
translate_text_offline ==
    /\ variant = "lib"
    /\ pc = "attempt"
    /\ LET chunk == chunks[chunk_idx]
           translated_words == offline_translation(chunk)
       IN  /\ log' = log \o <<Probe(FALSE, chunk), Return(chunk, translated_words)>>
           /\ translated_dict' = dict_update(translated_dict, zip_dict(chunk, translated_words))
    /\ pc' = "pace"
    /\ UNCHANGED <<variant, config, all_words, output, words_dict, chunks, chunk_idx,
                   attempt, output_before, exc, caller_exc>>
    /\ UNCHANGED <<response, request, fn_vars, env_vars>>

\* translate_text when the host is reachable and the service answers with resp
translate_text_returns(resp) ==
    /\ variant = "lib"
    /\ pc = "attempt"
    /\ LET chunk == chunks[chunk_idx]
           translated_words == split_lines(resp)
       IN  /\ log' = log \o <<Probe(TRUE, chunk), CallOk(chunk, resp),
                              Return(chunk, translated_words)>>
           /\ translated_dict' = dict_update(translated_dict, zip_dict(chunk, translated_words))
    /\ pc' = "pace"
    /\ UNCHANGED <<variant, config, all_words, output, words_dict, chunks, chunk_idx,
                   attempt, output_before, exc, caller_exc>>
    /\ UNCHANGED <<response, request, fn_vars, env_vars>>

translate_text_swallows ==
    /\ variant = "lib"
    /\ pc = "attempt"
    /\ LET chunk == chunks[chunk_idx]
       IN  /\ log' = log \o <<Probe(TRUE, chunk), CallFail(chunk)>>
           /\ pc' = IF retries(attempt) THEN "backoff" ELSE "pace"
           /\ exc' = exc
    /\ UNCHANGED <<variant, config, all_words, output, words_dict, chunks, chunk_idx,
                   attempt, translated_dict, output_before, caller_exc>>
    /\ UNCHANGED <<response, request, fn_vars, env_vars>>

\* translate_text when the host is reachable and the service call raises:
\* translate_chunk either goes to sleep before the retry or raises ExternalTranslationError,
\* which translate_dictionary and run let through
translate_text_raises ==
    /\ variant = "lib"
    /\ pc = "attempt"
    /\ LET chunk == chunks[chunk_idx]
       IN  IF retries(attempt)
           THEN /\ log' = log \o <<Probe(TRUE, chunk), CallFail(chunk)>>
                /\ pc' = "backoff"
                /\ exc' = exc
           ELSE /\ log' = log \o <<Probe(TRUE, chunk), CallFail(chunk), Raise(chunk)>>
                /\ pc' = "raised"
                /\ exc' = "ExternalTranslationError"
    /\ UNCHANGED <<variant, config, all_words, output, words_dict, chunks, chunk_idx,
                   attempt, translated_dict, output_before, caller_exc>>
    /\ UNCHANGED <<response, request, fn_vars, env_vars>>

translate_chunk_backoff_forever ==
    /\ variant = "lib"
    /\ pc = "backoff"
    /\ log' = log \o backoff_wait(chunks[chunk_idx])
    /\ pc' = "attempt"
    /\ UNCHANGED <<variant, config, all_words, output, words_dict, chunks, chunk_idx,
                   attempt, translated_dict, output_before, exc, caller_exc>>
    /\ UNCHANGED <<response, request, fn_vars, env_vars>>

\* translate_chunk: time.sleep(wait_time), then the next iteration of `for attempt in range(2)`;
\* when the range is exhausted translate_chunk returns its initial translated_chunk, []
translate_chunk_backoff ==
    /\ variant = "lib"
    /\ pc = "backoff"
    /\ attempt' = attempt + 1
    /\ IF attempt + 1 < MaxAttempts
       THEN /\ log' = log \o backoff_wait(chunks[chunk_idx])
            /\ pc' = "attempt"
            /\ translated_dict' = translated_dict
       ELSE /\ log' = log \o backoff_wait(chunks[chunk_idx])
                           \o <<Return(chunks[chunk_idx], <<>>)>>
            /\ pc' = "pace"
            /\ translated_dict' =
                   dict_update(translated_dict, zip_dict(chunks[chunk_idx], <<>>))
    /\ UNCHANGED <<variant, config, all_words, output, words_dict, chunks, chunk_idx,
                   output_before, exc, caller_exc>>
    /\ UNCHANGED <<response, request, fn_vars, env_vars>>

\* translate_dictionary: time.sleep(2) after the chunk, then the next chunk; after the
\* last chunk translate_dictionary returns and run appends the rows to output
translate_dictionary_pace ==
    /\ variant = "lib"
    /\ pc = "pace"
    /\ log' = log \o pace_wait
    /\ IF chunk_idx < Len(chunks)
       THEN /\ chunk_idx' = chunk_idx + 1
            /\ attempt' = 0
            /\ pc' = "attempt"
            /\ output' = output
       ELSE /\ output' = output \o output_rows(words_dict, translated_dict)
            /\ pc' = "done"
            /\ UNCHANGED <<chunk_idx, attempt>>
    /\ UNCHANGED <<variant, config, all_words, words_dict, chunks, translated_dict,
                   output_before, exc, caller_exc>>
    /\ UNCHANGED <<response, request, fn_vars, env_vars>>

exit_suppresses == TRUE

\* ScriptVocab.__exit__ returns None: an exception raised in the with-block is not suppressed
exit_returns_true == FALSE

\* ScriptVocab.get_output_as_json, called after run() returned
get_output_as_json ==
    /\ variant = "lib"
    /\ pc = "done"
    /\ response' = json_scan(output, 1, <<>>)
    /\ pc' = "json"
    /\ UNCHANGED <<variant, config, all_words, output, words_dict, chunks, chunk_idx,
                   attempt, translated_dict, log, output_before, exc, caller_exc>>
    /\ UNCHANGED <<request, fn_vars, env_vars>>

\* leaving `with ScriptVocab(config) as script_vocab:` after run() returned or raised
context_exit ==
    /\ variant = "lib"
    /\ pc \in {"done", "json", "raised"}
    /\ pc' = "exited"
    /\ caller_exc' = IF exc # "none" /\ ~ exit_returns_true THEN exc ELSE "none"
    /\ UNCHANGED <<variant, config, all_words, output, words_dict, chunks, chunk_idx,
                   attempt, translated_dict, log, output_before, exc>>
    /\ UNCHANGED <<response, request, fn_vars, env_vars>>

(***************************************************************************)
(* CLI variant: src/ScriptVocab.py                                         *)
(***************************************************************************)
\* translate_dictionary's chunking: words[i:i+chunk_size] for i in range(0, len(words), chunk_size)
cli_chunks(words, chunk_size) ==
    LET n == Len(words)
        starts == {i \in 0..(n - 1) : i % chunk_size = 0}
    IN  [k \in 1..Cardinality(starts) |->
            SubSeq(words, (k - 1) * chunk_size + 1, Min(k * chunk_size, n))]

\* after a chunk's dictionary update: the next chunk (which first sleeps, i > 0) or the return
cli_next_chunk_pc == IF chunk_idx < Len(chunks) THEN "cli_pace" ELSE "cli_done"

\* main: create_dictionary over the words read from the files, then translate_dictionary
\* up to its first service call
cli_main(words) ==
    /\ variant = "cli"
    /\ pc = "idle"
    /\ all_words' = words
    /\ LET d == cli_create_dictionary(words, config.min_appearance)
           cs == cli_chunks(keys(d), config.chunk_size)
       IN  /\ words_dict' = d
           /\ chunks' = cs
           /\ pc' = IF cs = <<>> THEN "cli_done" ELSE "cli_attempt"
    /\ translated_dict' = EmptyDict
    /\ chunk_idx' = 1
    /\ attempt' = 0
    /\ log' = <<>>
    /\ UNCHANGED <<variant, config, output, output_before, exc, caller_exc>>
    /\ UNCHANGED <<response, request, fn_vars, env_vars>>

\* ts.translate_text returns output: split, zip with the chunk, update translated_dict
cli_translate_returns(resp) ==
    /\ variant = "cli"
    /\ pc = "cli_attempt"
    /\ LET chunk == chunks[chunk_idx]
       IN  /\ log' = log \o <<CallOk(chunk, resp)>>
           /\ translated_dict' = dict_update(translated_dict, zip_dict(chunk, split_lines(resp)))
    /\ pc' = cli_next_chunk_pc
    /\ UNCHANGED <<variant, config, all_words, output, words_dict, chunks, chunk_idx,
                   attempt, output_before, exc, caller_exc>>
    /\ UNCHANGED <<response, request, fn_vars, env_vars>>

\* ts.translate_text raises: on the first attempt the handler goes to sleep before the
\* retry; on the second it only prints, the loop ends with output == "" and the chunk's
\* dictionary is built from "".split("\n")
cli_translate_raises ==
    /\ variant = "cli"
    /\ pc = "cli_attempt"
    /\ LET chunk == chunks[chunk_idx]
       IN  /\ log' = log \o <<CallFail(chunk)>>
           /\ IF attempt < 1
              THEN /\ pc' = "cli_backoff"
                   /\ translated_dict' = translated_dict
              ELSE /\ pc' = cli_next_chunk_pc
                   /\ translated_dict' =
                          dict_update(translated_dict, zip_dict(chunk, split_lines(<<>>)))
    /\ UNCHANGED <<variant, config, all_words, output, words_dict, chunks, chunk_idx,
                   attempt, output_before, exc, caller_exc>>
    /\ UNCHANGED <<response, request, fn_vars, env_vars>>

\* time.sleep(wait_time) in the handler, then the second attempt
cli_backoff ==
    /\ variant = "cli"
    /\ pc = "cli_backoff"
    /\ log' = log \o <<Backoff(chunks[chunk_idx])>>
    /\ attempt' = attempt + 1
    /\ pc' = "cli_attempt"
    /\ UNCHANGED <<variant, config, all_words, output, words_dict, chunks, chunk_idx,
                   translated_dict, output_before, exc, caller_exc>>
    /\ UNCHANGED <<response, request, fn_vars, env_vars>>

\* `if i>0: time.sleep(wait_time)` at the head of the next chunk's iteration
cli_pace ==
    /\ variant = "cli"
    /\ pc = "cli_pace"
    /\ log' = log \o <<Pace>>
    /\ chunk_idx' = chunk_idx + 1
    /\ attempt' = 0
    /\ pc' = "cli_attempt"
    /\ UNCHANGED <<variant, config, all_words, output, words_dict, chunks,
                   translated_dict, output_before, exc, caller_exc>>
    /\ UNCHANGED <<response, request, fn_vars, env_vars>>

(***************************************************************************)
(* Specification                                                           *)
(***************************************************************************)
\* the answers the service may give to the request of the chunk being translated
CurrentResponses ==
    IF pc \in {"attempt", "cli_attempt"} THEN Responses(Len(chunks[chunk_idx])) ELSE {}

Next ==
    \/ \E text \in Texts : input_text(text)
    \/ \E text \in Texts, file \in SeqsUpTo(UploadedFiles, 1) : translate_text(text, file)
    \/ run
    \/ translate_text_offline
    \/ \E resp \in CurrentResponses : translate_text_returns(resp)
    \/ translate_text_raises
    \/ translate_chunk_backoff
    \/ translate_dictionary_pace
    \/ get_output_as_json
    \/ context_exit
    \/ \E words \in SeqsUpTo(Tokens, MaxWords) : cli_main(words)
    \/ \E resp \in CurrentResponses : cli_translate_returns(resp)
    \/ cli_translate_raises
    \/ cli_backoff
    \/ cli_pace

Spec == Init /\ [][Next]_vars

(***************************************************************************)
(* Reading the log                                                         *)
(***************************************************************************)
RunReturned == pc \in {"done", "json"} \/ (pc = "exited" /\ exc = "none")
RunRaised == exc # "none"

\* the events of the translate_chunk call for chunk (chunks are pairwise disjoint and non-empty)
ChunkEvents(chunk) == LET Of(e) == e.batch = chunk IN SelectSeq(log, Of)

Count(evs, kind, ok) == Cardinality({i \in DOMAIN evs : evs[i].ev = kind /\ evs[i].ok = ok})
CountKind(evs, kind) == Cardinality({i \in DOMAIN evs : evs[i].ev = kind})
Kinds(evs) == [i \in DOMAIN evs |-> <<evs[i].ev, evs[i].ok>>]

(***************************************************************************)
(* C1: in the library's translate_chunk, when the first and the second     *)
(* attempt for a chunk both fail, translate_chunk has raised               *)
(* ExternalTranslationError after exactly two attempts with exactly one    *)
(* backoff wait lying between them, and has returned no list.              *)
(***************************************************************************)
C1_PersistentFailureRaises ==
    variant = "lib" =>
        \A k \in DOMAIN chunks :
            LET evs == ChunkEvents(chunks[k])
            IN  Count(evs, "call", FALSE) >= 2 =>
                    /\ Kinds(evs) = << <<"probe", TRUE>>, <<"call", FALSE>>,
                                       <<"backoff", TRUE>>,
                                       <<"probe", TRUE>>, <<"call", FALSE>>,
                                       <<"raise", FALSE>> >>
                    /\ exc = "ExternalTranslationError"
                    /\ pc \in {"raised", "exited"}

C1_Witness ==
    /\ variant = "lib"
    /\ pc = "raised"
    /\ Count(ChunkEvents(chunks[chunk_idx]), "call", FALSE) = 2

C3_CLIPersistentFailureRaises ==
    variant = "cli" =>
        \A k \in DOMAIN chunks :
            Count(ChunkEvents(chunks[k]), "call", FALSE) >= 2 =>
                /\ exc # "none"
                /\ pc \notin {"cli_attempt", "cli_pace", "cli_done"}

(***************************************************************************)
(* C4: when a chunk fails both attempts during run(), run() raises, the    *)
(* with-block lets the exception through to the caller, and output is what *)
(* it was when run() was entered (no row for the chunks already            *)
(* translated).                                                            *)
(***************************************************************************)
C4_PersistentFailureIsFatal ==
    variant = "lib" =>
        /\ (\E k \in DOMAIN chunks : Count(ChunkEvents(chunks[k]), "call", FALSE) >= 2) =>
               /\ RunRaised
               /\ ~ RunReturned
        /\ RunRaised =>
               /\ output = output_before
               /\ pc = "exited" => caller_exc = "ExternalTranslationError"

C4_Witness ==
    /\ variant = "lib"
    /\ pc = "exited"
    /\ caller_exc = "ExternalTranslationError"
    /\ chunk_idx > 1
    /\ DOMAIN translated_dict # {}
    /\ output = <<>>

(***************************************************************************)
(* More log reading                                                        *)
(***************************************************************************)
\* the concatenation of a sequence of sequences
RECURSIVE Flatten(_)
Flatten(ss) == IF ss = <<>> THEN <<>> ELSE Head(ss) \o Flatten(Tail(ss))

EventsOfKind(kind) == LET Of(e) == e.ev = kind IN SelectSeq(log, Of)
Batches(evs) == [i \in DOMAIN evs |-> evs[i].batch]
Occurrences(w, words) == Cardinality({i \in DOMAIN words : words[i] = w})

\* the rows run() has appended to output
AppendedRows == SubSeq(output, Len(output_before) + 1, Len(output))

(***************************************************************************)
(* C5: translate_dictionary splits the keys of the frequency map, in       *)
(* iteration order, into consecutive batches of exactly chunk_size words   *)
(* (only the last may be shorter, none is empty) whose concatenation is    *)
(* the key list, ceil(n / chunk_size) batches for n words; when every      *)
(* attempt succeeds there is exactly one translation attempt per batch, in *)
(* batch order, and, with the host reachable, one service call per batch.  *)
(***************************************************************************)
C5_Batching ==
    (variant = "lib" /\ pc # "idle") =>
        LET ks == keys(words_dict)
            n == Len(ks)
            c == config.chunk_size
        IN  /\ Flatten(chunks) = ks
            /\ Len(chunks) = (n + c - 1) \div c
            /\ \A k \in DOMAIN chunks :
                   /\ chunks[k] # <<>>
                   /\ Len(chunks[k]) <= c
                   /\ k < Len(chunks) => Len(chunks[k]) = c
            /\ (RunReturned /\ Count(log, "call", FALSE) = 0) =>
                   /\ Batches(EventsOfKind("probe")) = chunks
                   /\ Batches(EventsOfKind("return")) = chunks
                   /\ Count(log, "probe", FALSE) = 0 =>
                          Batches(EventsOfKind("call")) = chunks

C5_Witness ==
    /\ variant = "lib"
    /\ pc = "done"
    /\ config.chunk_size = 2
    /\ Len(words_dict) = 3
    /\ Len(chunks) = 2
    /\ Len(chunks[2]) = 1
    /\ Count(log, "call", FALSE) = 0
    /\ CountKind(log, "call") = 2

(***************************************************************************)
(* C6: for every batch whose answer has as many lines as the batch has     *)
(* words, translated_dict maps the i-th word of the batch to the i-th line *)
(* of the answer, now and after every later batch.                         *)
(***************************************************************************)
C6_PositionalZip ==
    variant = "lib" =>
        \A k \in DOMAIN log :
            (log[k].ev = "return" /\ Len(log[k].data) = Len(log[k].batch)) =>
                \A i \in DOMAIN log[k].batch :
                    /\ log[k].batch[i] \in DOMAIN translated_dict
                    /\ translated_dict[log[k].batch[i]] = log[k].data[i]

C6_Witness ==
    /\ variant = "lib"
    /\ pc = "done"
    /\ Len(chunks) = 2
    /\ Len(chunks[1]) = 2
    /\ LET rets == EventsOfKind("return")
       IN  /\ Len(rets) = 2
           /\ rets[1].data = << <<"x">>, <<"y">> >>
           /\ rets[2].data = << <<"y">> >>
    /\ translated_dict[chunks[1][1]] = <<"x">>
    /\ translated_dict[chunks[1][2]] = <<"y">>
    /\ translated_dict[chunks[2][1]] = <<"y">>

(***************************************************************************)
(* C7: an answer with fewer or more lines than the batch has words does    *)
(* not make run() raise (run raises only for a chunk whose two calls       *)
(* failed); the keys of translated_dict are keys of the frequency map; a   *)
(* word without a corresponding answer line is absent from translated_dict *)
(* and, when run() has returned, every word of the frequency map has       *)
(* exactly one row, in order, with an empty translation where the word has *)
(* no entry.                                                               *)
(***************************************************************************)
C7_MismatchNeverRaises ==
    (variant = "lib" /\ pc # "idle") =>
        /\ DOMAIN translated_dict \subseteq Range(keys(words_dict))
        /\ \A k \in DOMAIN log :
               log[k].ev = "return" =>
                   \A i \in DOMAIN log[k].batch :
                       i > Len(log[k].data) => log[k].batch[i] \notin DOMAIN translated_dict
        /\ RunRaised =>
               /\ log[Len(log)].ev = "raise"
               /\ Count(ChunkEvents(log[Len(log)].batch), "call", FALSE) = 2
        /\ RunReturned =>
               /\ Len(AppendedRows) = Len(words_dict)
               /\ \A i \in DOMAIN words_dict :
                      LET w == words_dict[i][1]
                          cnt == words_dict[i][2]
                      IN  AppendedRows[i] =
                              str_int(cnt) \o <<",", " ">> \o w \o <<",", " ">> \o
                              (IF w \in DOMAIN translated_dict THEN translated_dict[w] ELSE <<>>)

C7_Witness ==
    /\ variant = "lib"
    /\ pc = "done"
    /\ Len(chunks) = 2
    /\ Len(chunks[1]) = 2
    /\ LET rets == EventsOfKind("return")
       IN  /\ Len(rets[1].data) = 1
           /\ Len(rets[2].data) = 2
    /\ chunks[1][2] \notin DOMAIN translated_dict
    /\ Len(output) = 3
    /\ output[2] = str_int(words_dict[2][2]) \o <<",", " ">> \o words_dict[2][1] \o <<",", " ">>

(***************************************************************************)
(* C8 (as stated): between two consecutive service calls of one translate  *)
(* operation there is at least one wait, and no wait occurs before the     *)
(* first service call of the operation (library and CLI).                  *)
(***************************************************************************)
C8_WaitBetweenCalls_Original ==
    /\ \A i, j \in DOMAIN log :
           (i < j /\ log[i].ev = "call" /\ log[j].ev = "call") =>
               \E w \in (i + 1)..(j - 1) : IsWait(log[w])
    /\ \A w, j \in DOMAIN log :
           (IsWait(log[w]) /\ w < j /\ log[j].ev = "call") =>
               \E i \in 1..(w - 1) : log[i].ev = "call"

(***************************************************************************)
(* C8 (amended): between two consecutive service calls of one translate    *)
(* operation there is at least one wait, and no wait occurs before the     *)
(* first translation attempt of the operation (the connectivity probe in   *)
(* the library, the service call in the CLI).                              *)
(***************************************************************************)
C8_WaitBetweenCalls ==
    /\ \A i, j \in DOMAIN log :
           (i < j /\ log[i].ev = "call" /\ log[j].ev = "call") =>
               \E w \in (i + 1)..(j - 1) : IsWait(log[w])
    /\ \A w \in DOMAIN log :
           IsWait(log[w]) => \E i \in 1..(w - 1) : log[i].ev \in {"probe", "call"}
    /\ log # <<>> => log[1].ev = (IF variant = "lib" THEN "probe" ELSE "call")

C8_Witness ==
    /\ CountKind(log, "call") >= 3
    /\ CountKind(log, "backoff") >= 1
    /\ CountKind(log, "pace") >= 1
    /\ \E i \in DOMAIN log : log[i].ev = "pace" /\ i < Len(log) /\
           log[i + 1].ev \in {"probe", "call"}

(***************************************************************************)
(* C9: an attempt whose connectivity probe fails makes no service call and *)
(* translate_chunk returns at once, without raising or waiting, one        *)
(* 'placeholder' per word of the batch; a run whose probes all fail does   *)
(* not raise and, once returned, every row's translation is 'placeholder'. *)
(***************************************************************************)
C9_OfflineFallback ==
    variant = "lib" =>
        /\ \A k \in DOMAIN log :
               (log[k].ev = "probe" /\ ~ log[k].ok) =>
                   /\ k < Len(log)
                   /\ log[k + 1].ev = "return"
                   /\ log[k + 1].batch = log[k].batch
                   /\ Len(log[k + 1].data) = Len(log[k].batch)
                   /\ \A i \in DOMAIN log[k + 1].data :
                          log[k + 1].data[i] = <<"p","l","a","c","e","h","o","l","d","e","r">>
        /\ Count(log, "probe", TRUE) = 0 =>
               /\ ~ RunRaised
               /\ pc \notin {"backoff", "raised"}
               /\ CountKind(log, "call") = 0
               /\ CountKind(log, "backoff") = 0
               /\ RunReturned =>
                      /\ Len(AppendedRows) = Len(words_dict)
                      /\ \A i \in DOMAIN words_dict :
                             AppendedRows[i] =
                                 str_int(words_dict[i][2]) \o <<",", " ">> \o words_dict[i][1]
                                 \o <<",", " ">> \o <<"p","l","a","c","e","h","o","l","d","e","r">>

C9_Witness ==
    /\ variant = "lib"
    /\ pc = "done"
    /\ Len(chunks) = 2
    /\ Len(chunks[1]) = 2
    /\ Count(log, "probe", FALSE) = 2
    /\ Count(log, "probe", TRUE) = 0
    /\ Len(output) = 3

(***************************************************************************)
(* C10: create_dictionary returns exactly the distinct tokens occurring at *)
(* least min_appearance times, each with its exact number of occurrences,  *)
(* in an order that is non-increasing in count (library and CLI).          *)
(***************************************************************************)
C10_CreateDictionary ==
    pc # "idle" =>
        LET ks == keys(words_dict)
        IN  /\ \A i, j \in DOMAIN ks : ks[i] = ks[j] => i = j
            /\ Range(ks) = {w \in Range(all_words) :
                               Occurrences(w, all_words) >= config.min_appearance}
            /\ \A i \in DOMAIN words_dict :
                   words_dict[i][2] = Occurrences(words_dict[i][1], all_words)
            /\ \A i, j \in DOMAIN words_dict :
                   i < j => words_dict[i][2] >= words_dict[j][2]

C10_Witness ==
    /\ variant = "lib"
    /\ pc # "idle"
    /\ config.min_appearance = 2
    /\ Len(all_words) = 3
    /\ Cardinality(Range(all_words)) = 2
    /\ Len(words_dict) = 1
    /\ words_dict[1][2] = 2
    /\ all_words[1] # words_dict[1][1]

(***************************************************************************)
(* C11: after a successful run() on a freshly constructed controller,      *)
(* output holds exactly one row per entry of the frequency map built from  *)
(* all_words, in the map's order, and the row of word w with count c is    *)
(* "c, w, t" with t the word's entry in translated_dict, or "" without one.*)
(***************************************************************************)
C11_OutputRows ==
    (variant = "lib" /\ RunReturned) =>
        LET freq == create_dictionary(all_words, config.min_appearance)
        IN  /\ words_dict = freq
            /\ Len(output) = Cardinality({w \in Range(all_words) :
                                 Occurrences(w, all_words) >= config.min_appearance})
            /\ Len(output) = Len(freq)
            /\ \A i \in DOMAIN freq :
                   LET w == freq[i][1]
                       t == IF w \in DOMAIN translated_dict THEN translated_dict[w] ELSE <<>>
                   IN  output[i] = str_int(Occurrences(w, all_words))
                                   \o <<",", " ">> \o w \o <<",", " ">> \o t

C11_Witness ==
    /\ variant = "lib"
    /\ pc = "done"
    /\ all_words = << <<"b">>, <<"a">>, <<"a">> >>
    /\ output = << <<"2", ",", " ", "a", ",", " ", "x">>,
                   <<"1", ",", " ", "b", ",", " ">> >>

(***************************************************************************)
(* Structured output: a controller whose service answers and output rows   *)
(* range over strings with spaces, commas and empty strings                *)
(***************************************************************************)
MaxRows == 3            \* most rows assigned to output directly

\* lines the service may answer with: plain, padded with a space, empty, with a comma
OutputLines == {<<"x">>, <<" ", "x">>, <<"x", " ">>, <<>>, <<"x", ",", "y">>}

\* rows assigned to output directly (as the tests of get_output_as_json do)
SampleRows == {<<>>,
               <<"1", ",", "a">>,
               <<"5", ",", " ", "a", ",", " ", "x">>,
               <<"1", ",", " ", "b", ",", " ">>,
               <<"1", ",", " ", "a", ",", " ", "x", ",", "y">>}

\* the controller just after translate_text returned the answer to the only chunk of a run
\* (the rate limiter sleep and run's row loop are still to come), or a controller whose
\* output was assigned directly
InitOutput ==
    /\ variant = "lib"
    /\ exc = "none"
    /\ caller_exc = "none"
    /\ response = "unset"
    /\ request = NoRequest
    /\ controllers = <<>>
    /\ requests = <<>>
    /\ disk = <<>>
    /\ in_lines = <<>>
    /\ fn = "none"
    /\ fn_result = <<>>
    /\ attempt = 0
    /\ chunk_idx = 1
    /\ output_before = <<>>
    /\ \/ /\ all_words \in SeqsUpTo(Tokens, MaxWords) \ {<<>>}
          /\ words_dict = create_dictionary(all_words, 1)
          /\ config = [min_word_size |-> 1, min_appearance |-> 1,
                       chunk_size |-> Len(words_dict)]
          /\ chunks = convert_to_chunks(keys(words_dict), config.chunk_size)
          /\ \E ls \in UNION {[1..k -> OutputLines] : k \in 1..Len(words_dict)} :
                 LET resp == join_lines(ls)
                     translated_words == split_lines(resp)
                 IN  /\ log = <<Probe(TRUE, chunks[1]), CallOk(chunks[1], resp),
                                Return(chunks[1], translated_words)>>
                     /\ translated_dict = dict_update(EmptyDict,
                                                      zip_dict(chunks[1], translated_words))
          /\ output = <<>>
          /\ pc = "pace"
       \/ /\ all_words = <<>>
          /\ words_dict = <<>>
          /\ config = [min_word_size |-> 1, min_appearance |-> 1, chunk_size |-> 1]
          /\ chunks = <<>>
          /\ log = <<>>
          /\ translated_dict = EmptyDict
          /\ output \in SeqsUpTo(SampleRows, MaxRows)
          /\ pc = "done"

NextOutput ==
    \/ translate_dictionary_pace
    \/ get_output_as_json
    \/ context_exit

SpecOutput == InitOutput /\ [][NextOutput]_vars

\* the items of a row that has exactly two commas
ThreeItems(row) ==
    LET commas == {i \in DOMAIN row : row[i] = ","}
        p == CHOOSE i \in commas : \A j \in commas : i <= j
        q == CHOOSE i \in commas : \A j \in commas : j <= i
    IN  <<SubSeq(row, 1, p - 1), SubSeq(row, p + 1, q - 1), SubSeq(row, q + 1, Len(row))>>

WellFormed(row) == Cardinality({i \in DOMAIN row : row[i] = ","}) = 2

(***************************************************************************)
(* C12: round trip.  When no word and no translation contains a comma, the *)
(* rows produced by run() and parsed back by get_output_as_json give, in   *)
(* order, the original count (as its decimal string), word and translation *)
(* exactly, also for translations that are empty or that begin or end with *)
(* whitespace.                                                             *)
(***************************************************************************)
C12_RoundTrip ==
    (variant = "lib" /\ pc = "json" /\ words_dict # <<>>
        /\ \A w \in DOMAIN translated_dict : "," \notin Range(translated_dict[w])) =>
            /\ response # "None"
            /\ Len(response) = Len(words_dict)
            /\ \A i \in DOMAIN words_dict :
                   response[i] =
                       [occurrences |-> str_int(words_dict[i][2]),
                        original_text |-> words_dict[i][1],
                        translated_text |-> dict_get(translated_dict, words_dict[i][1])]

(***************************************************************************)
(* C13: get_output_as_json returns None whenever some row of output does   *)
(* not split into exactly three comma-separated fields, whatever rows      *)
(* precede or follow it; otherwise it returns one record per row, in       *)
(* order (the empty list for an empty output); it never modifies output.   *)
(***************************************************************************)
C13_MalformedRowGivesNone ==
    [][(pc = "done" /\ pc' = "json") =>
          /\ output' = output
          /\ IF \E i \in DOMAIN output : ~ WellFormed(output[i])
             THEN response' = "None"
             ELSE /\ response' # "None"
                  /\ Len(response') = Len(output)
                  /\ \A i \in DOMAIN output :
                         LET items == ThreeItems(output[i])
                         IN  /\ response'[i].occurrences = strip(items[1])
                             /\ response'[i].original_text = strip(items[2])
                             /\ response'[i].translated_text = strip(items[3])]_vars

C13_Witness ==
    /\ pc = "json"
    /\ response = "None"
    /\ Len(output) = 3
    /\ WellFormed(output[1])
    /\ ~ WellFormed(output[2])
    /\ WellFormed(output[3])

(***************************************************************************)
(* Cleanup                                                                 *)
(***************************************************************************)
\* re.sub("<.*?>", "", line): "<" up to the next ">" of the same line is removed
RECURSIVE sub_tags(_, _)
sub_tags(s, i) ==
    IF i > Len(s) THEN <<>>
    ELSE LET closers == {j \in (i + 1)..Len(s) :
                            /\ s[j] = ">"
                            /\ \A k \in (i + 1)..(j - 1) : s[k] # "\n"}
         IN  IF s[i] = "<" /\ closers # {}
             THEN sub_tags(s, (CHOOSE j \in closers : \A k \in closers : j <= k) + 1)
             ELSE <<s[i]>> \o sub_tags(s, i + 1)

re_sub_tags(line) == sub_tags(line, 1)

\* ScriptVocab.is_lowercase_letter_or_comma (both variants)
is_lowercase_letter_or_comma(char) == (IsAlpha(char) /\ lower_char(char) = char) \/ char = ","

\* what a call gives: the value it returns, or the exception it raises
Returns(value) == [raised |-> "none", value |-> value]
Raises(exception) == [raised |-> exception, value |-> <<>>]

\* clean_up's merging loop, `for i in range(1, n0)`, at (1-based) position k of the list
\* as it is now; n0 is the length the list had when the loop was entered
RECURSIVE clean_up_loop(_, _, _)
clean_up_loop(cleaner_lines, k, n0) ==
    IF k > n0 THEN Returns(cleaner_lines)
    ELSE IF k > Len(cleaner_lines) THEN Raises("IndexError")        \* cleaner_lines[i]
    ELSE IF cleaner_lines[k] = <<>> THEN Raises("IndexError")       \* cleaner_lines[i][0]
    ELSE IF is_lowercase_letter_or_comma(cleaner_lines[k][1])
         THEN clean_up_loop(
                  [j \in 1..(Len(cleaner_lines) - 1) |->
                      IF j < k - 1 THEN cleaner_lines[j]
                      ELSE IF j = k - 1
                           THEN cleaner_lines[k - 1] \o <<" ">> \o cleaner_lines[k]
                      ELSE cleaner_lines[j + 1]],
                  k + 1, n0)
         ELSE clean_up_loop(cleaner_lines, k + 1, n0)

\* clean_up's first statement: the lines with text, tags removed, right-trimmed
surviving_lines(lines) ==
    LET HasText(line) == ~ has_no_text(line)
        kept == SelectSeq(lines, HasText)
    IN  [j \in DOMAIN kept |-> rstrip(re_sub_tags(kept[j]))]

clean_up_drops_leading(lines) ==
    LET cleaner_lines == surviving_lines(lines)
        rest == IF cleaner_lines # <<>> /\ cleaner_lines[1] # <<>>
                   /\ is_lowercase_letter_or_comma(cleaner_lines[1][1])
                THEN Tail(cleaner_lines) ELSE cleaner_lines
    IN  clean_up_loop(rest, 2, Len(rest))

\* ScriptVocab.clean_up: the list it returns, or the IndexError it raises
clean_up(lines) ==
    LET cleaner_lines == surviving_lines(lines)
    IN  clean_up_loop(cleaner_lines, 2, Len(cleaner_lines))

\* clean_up of src/ScriptVocab.py: the loop over lines[1:], from (1-based) position k
RECURSIVE cli_clean_up_loop(_, _, _)
cli_clean_up_loop(lines, k, new_lines) ==
    IF k > Len(lines) THEN new_lines
    ELSE LET line == lines[k]
         IN  IF has_no_text(line) THEN cli_clean_up_loop(lines, k + 1, new_lines)
             ELSE IF new_lines # <<>> /\ is_lowercase_letter_or_comma(line[1])
                  THEN cli_clean_up_loop(lines, k + 1,
                           [new_lines EXCEPT ![Len(new_lines)] = strip(@) \o <<" ">> \o line])
             ELSE cli_clean_up_loop(lines, k + 1, Append(new_lines, re_sub_tags(line)))

cli_clean_up(lines) == cli_clean_up_loop(lines, 2, <<>>)

\* the content of a text file whose lines are `lines`, each ended by a newline
file_content(lines) == Flatten([k \in DOMAIN lines |-> lines[k] \o <<"\n">>])

\* f.readlines(): the lines of the content, line ends kept
RECURSIVE readlines_scan(_, _, _)
readlines_scan(content, i, cur) ==
    IF i > Len(content) THEN (IF cur = <<>> THEN <<>> ELSE <<cur>>)
    ELSE IF content[i] = "\n"
         THEN <<Append(cur, "\n")>> \o readlines_scan(content, i + 1, <<>>)
    ELSE readlines_scan(content, i + 1, Append(cur, content[i]))

readlines(content) == readlines_scan(content, 1, <<>>)

\* process_files on one file: the words it adds to all_words, or the IndexError it raises
process_file_words(content, min_word_size) ==
    LET cleaned == clean_up(readlines(content))
        cleaned_lines == cleaned.value
    IN  IF cleaned.raised # "none" THEN cleaned
        ELSE Returns(Flatten([k \in DOMAIN cleaned_lines |->
                                 create_word_list_from_text(cleaned_lines[k], min_word_size)]))

(***************************************************************************)
(* Specification of the text functions: a line, a text or the lines of a   *)
(* subtitle file is drawn, and one function of the module is applied to it *)
(***************************************************************************)
MaxLines == 3
MaxLineLen == 3
MaxTextLen == 5
MaxMinWordSize == 2

\* the timestamp line of an SRT block, and lines that nearly are one
Timestamp == <<"0", ":", "0", "0", ":", "0", "0", ",", "0", "0", "0">>
TimestampLines ==
    { Timestamp,
      <<"1">> \o Timestamp,
      Timestamp \o <<"a">>,
      <<" ">> \o Timestamp \o <<"a">>,
      <<"a">> \o Timestamp,
      <<"0">> \o <<"0">> \o Timestamp \o <<"a">>,
      SubSeq(Timestamp, 1, 10) \o <<"a">> }

LineAlphabet == {"a", "Z", "e_acute", "7", ":", ",", " ", "!"}
ClassifierLines == SeqsUpTo(LineAlphabet, MaxLineLen) \cup TimestampLines

TextAlphabet == {"a", "B", "7", "_", " ", "e_acute"}
TokenizerTexts == SeqsUpTo(TextAlphabet, MaxTextLen)

\* lines of a subtitle file, without their line ends
FileLines ==
    { <<"7">>,
      Timestamp,
      <<>>,
      <<"!">>,
      <<"e_acute">>,
      <<"A", "b">>,
      <<"b">>,
      <<",", "c">>,
      <<"<", "i", ">">>,
      <<"<", "i", ">", "A", "<", "/", "i", ">">>,
      <<"c", " ", "<", "i", ">", "x", "<", "/", "i", ">">>,
      <<"A", " ", "<">>,
      <<"b", ">">> }
Files == SeqsUpTo(FileLines, MaxLines)

InitText ==
    /\ variant = "lib"
    /\ config \in [min_word_size : 1..MaxMinWordSize, min_appearance : {1}, chunk_size : {1}]
    /\ all_words = <<>>
    /\ output = <<>>
    /\ words_dict = <<>>
    /\ chunks = <<>>
    /\ chunk_idx = 0
    /\ attempt = 0
    /\ translated_dict = EmptyDict
    /\ log = <<>>
    /\ output_before = <<>>
    /\ exc = "none"
    /\ caller_exc = "none"
    /\ response = "unset"
    /\ request = NoRequest
    /\ controllers = <<>>
    /\ requests = <<>>
    /\ disk = <<>>
    /\ fn = "none"
    /\ fn_result = <<>>
    /\ \/ pc = "line" /\ in_lines \in {<<line>> : line \in ClassifierLines}
       \/ pc = "text" /\ in_lines \in {<<text>> : text \in TokenizerTexts}
       \/ pc = "file" /\ in_lines \in Files

text_unchanged ==
    UNCHANGED <<variant, config, output, words_dict, chunks, chunk_idx, attempt,
                translated_dict, log, output_before, caller_exc, response, request, in_lines,
                env_vars>>

\* has_no_text(line)
call_has_no_text ==
    /\ pc = "line"
    /\ pc' = "called"
    /\ fn' = "has_no_text"
    /\ fn_result' = has_no_text(in_lines[1])
    /\ UNCHANGED <<all_words, exc>>
    /\ text_unchanged

\* clean_up(lines) of the library, on the lines as f.readlines() gives them
call_clean_up ==
    /\ pc = "file"
    /\ pc' = "called"
    /\ fn' = "clean_up"
    /\ LET cleaned == clean_up(readlines(file_content(in_lines)))
       IN  fn_result' = cleaned.value /\ exc' = cleaned.raised
    /\ UNCHANGED all_words
    /\ text_unchanged

\* clean_up(lines) of src/ScriptVocab.py, on the lines as f.readlines() gives them
call_cli_clean_up ==
    /\ pc = "file"
    /\ pc' = "called"
    /\ fn' = "cli_clean_up"
    /\ fn_result' = cli_clean_up(readlines(file_content(in_lines)))
    /\ UNCHANGED <<all_words, exc>>
    /\ text_unchanged

\* create_word_list_from_text(text, min_word_size)
call_create_word_list_from_text ==
    /\ pc = "text"
    /\ pc' = "tokenized"
    /\ fn' = "create_word_list_from_text"
    /\ fn_result' = create_word_list_from_text(in_lines[1], config.min_word_size)
    /\ UNCHANGED <<all_words, exc>>
    /\ text_unchanged

\* create_word_list_from_text applied to the space-joined tokens it returned
call_create_word_list_again ==
    /\ pc = "tokenized"
    /\ pc' = "called"
    /\ fn' = "create_word_list_again"
    /\ fn_result' = create_word_list_from_text(join_space(fn_result), config.min_word_size)
    /\ UNCHANGED <<all_words, exc>>
    /\ text_unchanged

\* input_text(text) with the content of the file as text
call_input_text ==
    /\ pc = "file"
    /\ pc' = "called"
    /\ fn' = "input_text"
    /\ all_words' = all_words \o
           create_word_list_from_text(file_content(in_lines), config.min_word_size)
    /\ UNCHANGED <<fn_result, exc>>
    /\ text_unchanged

\* process_files([file_path]) with the file
call_process_files ==
    /\ pc = "file"
    /\ pc' = "called"
    /\ fn' = "process_files"
    /\ LET words == process_file_words(file_content(in_lines), config.min_word_size)
       IN  /\ exc' = words.raised
           /\ all_words' = all_words \o words.value
    /\ UNCHANGED fn_result
    /\ text_unchanged

NextText ==
    \/ call_has_no_text
    \/ call_clean_up
    \/ call_cli_clean_up
    \/ call_create_word_list_from_text
    \/ call_create_word_list_again
    \/ call_input_text
    \/ call_process_files

SpecText == InitText /\ [][NextText]_vars

(***************************************************************************)
(* C14: has_no_text(line) is true exactly when the line, trimmed, is       *)
(* empty, or consists only of digits, or begins with an SRT timestamp, or  *)
(* contains no alphabetic character; a line containing any alphabetic      *)
(* character, ASCII or not, that is not timestamp-prefixed is content.     *)
(***************************************************************************)
C14_HasNoText ==
    fn = "has_no_text" =>
        LET trimmed == strip(in_lines[1])
        IN  fn_result =
                (\/ trimmed = <<>>
                 \/ \A i \in DOMAIN trimmed : trimmed[i] \in Digits
                 \/ matches_timestamp(trimmed)
                 \/ ~ \E i \in DOMAIN trimmed : IsAlpha(trimmed[i]))

\* the lines `ls` appended to `acc`, every line that begins with a lowercase letter
\* or a comma joined to the entry before it with one space
RECURSIVE MergeContinuations(_, _)
MergeContinuations(ls, acc) ==
    IF ls = <<>> THEN acc
    ELSE LET line == Head(ls)
         IN  IF acc # <<>> /\ line # <<>> /\ is_lowercase_letter_or_comma(line[1])
             THEN MergeContinuations(Tail(ls),
                      [acc EXCEPT ![Len(acc)] = @ \o <<" ">> \o line])
             ELSE MergeContinuations(Tail(ls), Append(acc, line))

(***************************************************************************)
(* C15: the library's clean_up merges every surviving continuation line    *)
(* into its predecessor, also when several continuation lines follow one   *)
(* another and when a continuation line is not the last line; in its       *)
(* result no entry other than the first begins with a lowercase letter or  *)
(* a comma.                                                                *)
(***************************************************************************)
C15_MergesEveryContinuation ==
    fn = "clean_up" =>
        /\ exc = "none"
        /\ fn_result =
               MergeContinuations(surviving_lines(readlines(file_content(in_lines))), <<>>)
        /\ \A k \in 2..Len(fn_result) :
               fn_result[k] # <<>> => ~ is_lowercase_letter_or_comma(fn_result[k][1])

\* "<" followed later by ">"
HasMarkup(s) == \E i, j \in DOMAIN s : i < j /\ s[i] = "<" /\ s[j] = ">"

\* the characters of s that are not whitespace
Squeeze(s) == LET Visible(c) == c \notin Whitespace IN SelectSeq(s, Visible)

\* the text of the content lines among `lines`, markup removed, in order
ContentText(lines) ==
    LET HasText(line) == ~ has_no_text(line)
        kept == SelectSeq(lines, HasText)
    IN  Squeeze(Flatten([k \in DOMAIN kept |-> re_sub_tags(kept[k])]))

(***************************************************************************)
(* C16: the result of clean_up, library and CLI, contains no markup (no    *)
(* entry has a "<" followed later by a ">"), is built only from the        *)
(* content lines of the input, and keeps their order: its text is the text *)
(* of the content lines, tags removed, in input order.                     *)
(***************************************************************************)
C16_NoMarkup ==
    (fn \in {"clean_up", "cli_clean_up"} /\ exc = "none") =>
        LET lines == readlines(file_content(in_lines))
            \* the CLI's clean_up leaves the first line out
            read == IF fn = "clean_up" \/ lines = <<>> THEN lines ELSE Tail(lines)
        IN  /\ \A k \in DOMAIN fn_result : ~ HasMarkup(fn_result[k])
            /\ Squeeze(Flatten(fn_result)) = ContentText(read)

\* the maximal runs of word characters of text, as <<first, last>> positions
WordRuns(text) ==
    {r \in (DOMAIN text) \X (DOMAIN text) :
        /\ r[1] <= r[2]
        /\ \A k \in r[1]..r[2] : IsWordChar(text[k])
        /\ r[1] = 1 \/ ~ IsWordChar(text[r[1] - 1])
        /\ r[2] = Len(text) \/ ~ IsWordChar(text[r[2] + 1])}

\* the runs that are content per has_no_text and have at least m characters
ContentRuns(text, m) ==
    {r \in WordRuns(text) :
        /\ ~ has_no_text(SubSeq(text, r[1], r[2]))
        /\ r[2] - r[1] + 1 >= m}

IsLowercase(word) == \A i \in DOMAIN word : ~ IsUpper(word[i])

C19_SameTokensEitherWay ==
    fn = "input_text" =>
        LET from_file == process_file_words(file_content(in_lines), config.min_word_size)
        IN  from_file.raised = "none" => all_words = from_file.value

(***************************************************************************)
(* C20: a service request that supplies neither text nor a file is         *)
(* rejected with an input error before any processing begins: no           *)
(* controller ingests anything, no frequency map is built, and no          *)
(* connectivity probe or translation attempt is made for it.               *)
(***************************************************************************)
C20_MissingInputRejected ==
    (request.status # "none" /\ request.text = <<>> /\ request.file = <<>>) =>
        /\ request.status = "rejected"
        /\ pc = "rejected"
        /\ caller_exc = "ValueError"
        /\ all_words = <<>>
        /\ words_dict = <<>>
        /\ chunks = <<>>
        /\ log = <<>>
        /\ output = <<>>
        /\ response = "unset"

C20_Witness ==
    /\ request.status = "rejected"
    /\ request.text = <<>>
    /\ request.file = <<>>
    /\ caller_exc = "ValueError"

(***************************************************************************)
(* Specification of the server: concurrent /translate requests.  A request *)
(* is stepped at the calls of process_text (construction and input_text,   *)
(* run, get_output_as_json), which is finer than the event loop            *)
(* interleaves them; the translation of run() is one step.                 *)
(***************************************************************************)
MaxRequests == 2

\* the text fields of the requests
RequestTexts == {<<>>, <<"a">>, <<"b">>, <<"a", " ", "b">>}

\* a request as the handler receives it
NewRequest(text) ==
    [pc |-> "received", text |-> text, script_vocab |-> 0, response |-> "unset",
     error |-> "none"]

InitServer ==
    /\ variant = "lib"
    /\ config \in [min_word_size : {1}, min_appearance : {1}, chunk_size : {1}]
    /\ all_words = <<>>
    /\ output = <<>>
    /\ pc = "idle"
    /\ words_dict = <<>>
    /\ chunks = <<>>
    /\ chunk_idx = 1
    /\ attempt = 0
    /\ translated_dict = EmptyDict
    /\ log = <<>>
    /\ output_before = <<>>
    /\ exc = "none"
    /\ caller_exc = "none"
    /\ response = "unset"
    /\ request = NoRequest
    /\ in_lines = <<>>
    /\ fn = "none"
    /\ fn_result = <<>>
    /\ controllers = <<>>
    /\ disk = <<>>
    /\ requests \in {[r \in 1..MaxRequests |-> NewRequest(texts[r])] :
                        texts \in [1..MaxRequests -> RequestTexts]}

server_unchanged ==
    UNCHANGED <<variant, config, all_words, output, pc, words_dict, chunks, chunk_idx,
                attempt, translated_dict, log, output_before, exc, caller_exc,
                response, request, fn_vars, disk>>

shared_controller(heap) == 1

\* ScriptVocab(config): the object constructed is a new one
new_controller(heap) == Len(heap) + 1

\* ScriptVocab.__init__
Constructed == [all_words |-> <<>>, output |-> <<>>]

\* translate_text's check, for request r
server_check(r) ==
    /\ requests[r].pc = "received"
    /\ IF no_text(requests[r].text)
       THEN requests' = [requests EXCEPT ![r].pc = "rejected", ![r].error = "ValueError"]
       ELSE requests' = [requests EXCEPT ![r].pc = "checked"]
    /\ UNCHANGED controllers
    /\ server_unchanged

\* process_text: with ScriptVocab(config) as script_vocab: script_vocab.input_text(text)
server_input_text(r) ==
    /\ requests[r].pc = "checked"
    /\ LET id == new_controller(controllers)
           heap == IF id \in DOMAIN controllers THEN controllers
                   ELSE Append(controllers, Constructed)
           words == create_word_list_from_text(requests[r].text, config.min_word_size)
       IN  /\ controllers' = [heap EXCEPT ![id].all_words = @ \o words]
           /\ requests' = [requests EXCEPT ![r].pc = "ingested", ![r].script_vocab = id]
    /\ server_unchanged

\* process_text: script_vocab.run(), the service answering or not; a run that raises
\* leaves the with-block and the handler
server_run(r, answers) ==
    /\ requests[r].pc = "ingested"
    /\ LET id == requests[r].script_vocab
           d == create_dictionary(controllers[id].all_words, config.min_appearance)
           translations ==
               IF answers = "offline" THEN zip_dict(keys(d), offline_translation(keys(d)))
               ELSE zip_dict(keys(d), [i \in DOMAIN d |-> <<"x">>])
       IN  IF answers = "fails" /\ d # <<>>
           THEN /\ requests' = [requests EXCEPT ![r].pc = "failed",
                                                ![r].error = "ExternalTranslationError"]
                /\ UNCHANGED controllers
           ELSE /\ requests' = [requests EXCEPT ![r].pc = "ran"]
                /\ controllers' =
                       [controllers EXCEPT ![id].output = @ \o output_rows(d, translations)]
    /\ server_unchanged

\* process_text: response = script_vocab.get_output_as_json(), returned as the JSON response
server_respond(r) ==
    /\ requests[r].pc = "ran"
    /\ requests' = [requests EXCEPT
                       ![r].pc = "responded",
                       ![r].response = json_scan(controllers[requests[r].script_vocab].output,
                                                 1, <<>>)]
    /\ UNCHANGED controllers
    /\ server_unchanged

NextServer ==
    \/ \E r \in DOMAIN requests : server_check(r)
    \/ \E r \in DOMAIN requests : server_input_text(r)
    \/ \E r \in DOMAIN requests, answers \in {"online", "offline", "fails"} :
           server_run(r, answers)
    \/ \E r \in DOMAIN requests : server_respond(r)

SpecServer == InitServer /\ [][NextServer]_vars

\* the requests that hold a controller
Serving == {r \in DOMAIN requests : requests[r].script_vocab # 0}

\* the words of request r's own input
OwnWords(r) == create_word_list_from_text(requests[r].text, config.min_word_size)

(***************************************************************************)
(* C21: in the server every request constructs and uses its own            *)
(* controller: under every interleaving of concurrent /translate requests  *)
(* no two requests hold the same controller, the token list and the output *)
(* of a request's controller come from that request alone, and each        *)
(* response has exactly the rows of the words of its own request's input.  *)
(***************************************************************************)
C21_OwnController ==
    /\ \A r1, r2 \in Serving : r1 # r2 => requests[r1].script_vocab # requests[r2].script_vocab
    /\ \A r \in Serving :
           LET controller == controllers[requests[r].script_vocab]
               own == create_dictionary(OwnWords(r), config.min_appearance)
           IN  /\ controller.all_words = OwnWords(r)
               /\ requests[r].pc \in {"ingested", "failed"} => controller.output = <<>>
               /\ requests[r].pc \in {"ran", "responded"} =>
                      /\ Len(controller.output) = Len(own)
                      /\ \A i \in DOMAIN own :
                             ThreeItems(controller.output[i])[2] = <<" ">> \o own[i][1]
               /\ requests[r].pc = "responded" =>
                      /\ Len(requests[r].response) = Len(own)
                      /\ \A i \in DOMAIN own :
                             requests[r].response[i].original_text = own[i][1]

\* two requests with different words in flight at once, one of them already run
C21_Witness ==
    /\ requests[1].pc = "ran"
    /\ requests[2].pc = "ingested"
    /\ requests[1].text = <<"a">>
    /\ requests[2].text = <<"b">>

(***************************************************************************)
(* Reading input files                                                     *)
(***************************************************************************)
\* bytes that are not valid in the declared encoding ("xFF" stands for one such byte)
Undecodable == {"xFF"}

\* U+FFFD, the character errors='replace' puts in their place
ReplacementChar == "uFFFD"

\* open(filename, encoding=..., errors='replace') ... f.readlines(): the text read
decode_replace(bytes) ==
    Returns([i \in DOMAIN bytes |->
                IF bytes[i] \in Undecodable THEN ReplacementChar ELSE bytes[i]])

\* open(file_path, "r", encoding=encoding) ... f.readlines(): errors is left at its
\* default, 'strict', so an undecodable byte raises UnicodeDecodeError
decode_strict(bytes) ==
    IF \E i \in DOMAIN bytes : bytes[i] \in Undecodable
    THEN Raises("UnicodeDecodeError")
    ELSE Returns(bytes)

\* process_files from file k on: all_words after the loop, or the exception that ends it
\* with all_words as it was extended so far
RECURSIVE process_files_from(_, _, _, _)
process_files_from(files, k, words, min_word_size) ==
    IF k > Len(files) THEN Returns(words)
    ELSE LET text == decode_strict(files[k])
             added == process_file_words(text.value, min_word_size)
         IN  IF text.raised # "none" THEN [raised |-> text.raised, value |-> words]
             ELSE IF added.raised # "none" THEN [raised |-> added.raised, value |-> words]
             ELSE process_files_from(files, k + 1, words \o added.value, min_word_size)

\* create_word_list_from_text of src/ScriptVocab.py
cli_create_word_list_from_text(text) ==
    LET HasText(word) == ~ has_no_text(word)
    IN  SelectSeq(findall_words(text), HasText)

\* main's loop over filenames, from file k on: all_words after the loop
RECURSIVE cli_read_from(_, _, _)
cli_read_from(files, k, words) ==
    IF k > Len(files) THEN words
    ELSE LET lines == readlines(decode_replace(files[k]).value)
             text == lower(join_space(cli_clean_up(lines)))
         IN  cli_read_from(files, k + 1, words \o cli_create_word_list_from_text(text))

(***************************************************************************)
(* Specification of a controller that reads files and is used again after  *)
(* a run: input_text, input_files, run and get_output_as_json in any       *)
(* order a caller may make them, and the CLI's main reading its files.     *)
(* The network is up and the service answers every call, one line a word.  *)
(***************************************************************************)
MaxFiles == 2

\* the bytes of the input files
\* the bytes of the input files: an index line, then a line of text
FileBytes ==
    { <<"7", "\n", "a", "\n">>,
      <<"7", "\n", "A", " ", "b", "\n">>,
      <<"7", "\n", "xFF", "b", "\n">> }

\* what the path names: a file, a directory with its matching files, or nothing
Disks ==
    {[kind |-> "file", files |-> <<bytes>>] : bytes \in FileBytes}
    \cup {[kind |-> "dir", files |-> files] : files \in SeqsUpTo(FileBytes, MaxFiles)}
    \cup {[kind |-> "missing", files |-> <<>>]}

InitFiles ==
    /\ variant \in {"lib", "cli"}
    /\ config \in [min_word_size : {1}, min_appearance : {1}, chunk_size : 1..MaxChunkSize]
    /\ all_words = <<>>
    /\ output = <<>>
    /\ pc = "idle"
    /\ words_dict = <<>>
    /\ chunks = <<>>
    /\ chunk_idx = 1
    /\ attempt = 0
    /\ translated_dict = EmptyDict
    /\ log = <<>>
    /\ output_before = <<>>
    /\ exc = "none"
    /\ caller_exc = "none"
    /\ response = "unset"
    /\ request = NoRequest
    /\ in_lines = <<>>
    /\ fn = "none"
    /\ fn_result = <<>>
    /\ controllers = <<>>
    /\ requests = <<>>
    /\ disk \in Disks

path_exists_always(kind) == TRUE

\* path_obj.is_file() or path_obj.is_dir()
path_exists(kind) == kind \in {"file", "dir"}

\* ScriptVocab.input_files(path, input_extension, encoding), process_files included
input_files ==
    /\ variant = "lib"
    /\ pc = "idle"
    /\ IF ~ path_exists(disk.kind)
       THEN /\ exc' = "FileNotFoundError"
            /\ pc' = "raised"
            /\ UNCHANGED all_words
       ELSE LET read == process_files_from(disk.files, 1, all_words, config.min_word_size)
            IN  /\ all_words' = read.value
                /\ exc' = read.raised
                /\ pc' = IF read.raised = "none" THEN "idle" ELSE "raised"
                /\ Len(read.value) <= MaxWords
    /\ fn' = "input_files"
    /\ UNCHANGED <<variant, config, output, words_dict, chunks, chunk_idx, attempt,
                   translated_dict, log, output_before, caller_exc>>
    /\ UNCHANGED <<response, request, in_lines, fn_result, env_vars>>

\* the caller uses the controller again after a run that began with an empty output
use_again ==
    /\ variant = "lib"
    /\ pc \in {"done", "json"}
    /\ output_before = <<>>
    /\ pc' = "idle"
    /\ UNCHANGED <<variant, config, all_words, output, words_dict, chunks, chunk_idx,
                   attempt, translated_dict, log, output_before, exc, caller_exc>>
    /\ UNCHANGED <<response, request, fn_vars, env_vars>>

\* main of src/ScriptVocab.py: the files are read, then as cli_main
cli_main_files ==
    /\ disk.kind # "missing"
    /\ cli_main(cli_read_from(disk.files, 1, <<>>))

\* the answer of the service to the chunk being translated: a line "x" for each word
LineForLine ==
    IF pc \in {"attempt", "cli_attempt"}
    THEN {join_lines([i \in DOMAIN chunks[chunk_idx] |-> <<"x">>])}
    ELSE {}

NextFiles ==
    \/ \E text \in {<<"a">>, <<"c">>} : input_text(text)
    \/ input_files
    \/ run
    \/ \E resp \in LineForLine : translate_text_returns(resp)
    \/ translate_dictionary_pace
    \/ get_output_as_json
    \/ use_again
    \/ context_exit
    \/ cli_main_files
    \/ \E resp \in LineForLine : cli_translate_returns(resp)
    \/ cli_pace

SpecFiles == InitFiles /\ [][NextFiles]_vars

\* the words of all the files, undecodable bytes replaced
WordsWithSubstitution ==
    Flatten([k \in DOMAIN disk.files |->
                create_word_list_from_text(decode_replace(disk.files[k]).value, 1)])

(***************************************************************************)
(* C22: undecodable bytes met while reading an input file are never fatal: *)
(* neither process_files nor the CLI's read loop raises on them; the bytes *)
(* are substituted, the file is read to its end, and its words and the     *)
(* words of the remaining files are tokenized.                             *)
(***************************************************************************)
C22_DecodeErrorsRecovered ==
    /\ exc # "UnicodeDecodeError"
    /\ (variant = "cli" /\ pc # "idle") => all_words = WordsWithSubstitution
    /\ (variant = "lib" /\ fn = "input_files" /\ output = <<>> /\ disk.kind # "missing") =>
           \A k \in DOMAIN disk.files :
               \A w \in Range(create_word_list_from_text(decode_replace(disk.files[k]).value, 1)) :
                   w \in Range(all_words)

(***************************************************************************)
(* C23: input_files called with a path that is neither an existing file    *)
(* nor an existing directory raises FileNotFoundError at once: no file is  *)
(* read, nothing is retried, and all_words and output are left exactly as  *)
(* they were before the call.                                              *)
(***************************************************************************)
C23_MissingPathFailsFast ==
    [][(fn = "none" /\ fn' = "input_files" /\ disk.kind = "missing") =>
          /\ exc' = "FileNotFoundError"
          /\ pc' = "raised"
          /\ all_words' = all_words
          /\ output' = output
          /\ log' = log]_vars

\* the call failed on a controller that already held words and rows
C23_Witness ==
    /\ exc = "FileNotFoundError"
    /\ disk.kind = "missing"
    /\ all_words # <<>>
    /\ output # <<>>

\* the translate_chunk returns and the pacing waits of the log, in order
ReturnsAndPaces == LET Of(e) == e.ev \in {"return", "pace"} IN SelectSeq(log, Of)

(***************************************************************************)
(* C24: in the library's translate_dictionary a pacing wait follows every  *)
(* batch, the last one included: when all k batches are translated there   *)
(* are exactly k translate_chunk calls and exactly k pacing waits, in      *)
(* strict alternation call, wait, call, wait.                              *)
(***************************************************************************)
C24_PaceAfterEveryBatch ==
    (variant = "lib" /\ RunReturned) =>
        /\ CountKind(log, "return") = Len(chunks)
        /\ CountKind(log, "pace") = Len(chunks)
        /\ Len(ReturnsAndPaces) = 2 * Len(chunks)
        /\ \A k \in DOMAIN chunks :
               /\ ReturnsAndPaces[2 * k - 1].ev = "return"
               /\ ReturnsAndPaces[2 * k - 1].batch = chunks[k]
               /\ ReturnsAndPaces[2 * k].ev = "pace"
        /\ chunks # <<>> => log[Len(log)].ev = "pace"

\* two batches translated by the service, two pacing waits
C24_Witness ==
    /\ variant = "lib"
    /\ pc = "done"
    /\ Len(chunks) = 2
    /\ CountKind(log, "call") = 2
    /\ CountKind(log, "pace") = 2

IsPrefix(p, s) == Len(p) <= Len(s) /\ SubSeq(s, 1, Len(p)) = p

IsContinuation(line) == line # <<>> /\ is_lowercase_letter_or_comma(line[1])

(***************************************************************************)
(* C25: a continuation line (first character a lowercase letter or a       *)
(* comma) that is the first surviving line is merged into nothing:         *)
(* clean_up, library and CLI, keeps it as the first entry of its result    *)
(* and does not fail on it.                                                *)
(***************************************************************************)
C25_LeadingContinuationKept ==
    LET lines == readlines(file_content(in_lines))
        HasText(line) == ~ has_no_text(line)
    IN  /\ fn = "clean_up" =>
               LET survivors == surviving_lines(lines)
               IN  (survivors # <<>> /\ IsContinuation(survivors[1])) =>
                       /\ exc = "none" =>
                              /\ fn_result # <<>>
                              /\ IsPrefix(survivors[1], fn_result[1])
                       \* no later line to merge or to fail on: the lines are returned as they are
                       /\ (\A k \in 2..Len(survivors) :
                               survivors[k] # <<>> /\ ~ IsContinuation(survivors[k])) =>
                              (exc = "none" /\ fn_result = survivors)
        /\ (fn = "cli_clean_up" /\ lines # <<>>) =>
               LET survivors == SelectSeq(Tail(lines), HasText)
               IN  (survivors # <<>> /\ IsContinuation(survivors[1])) =>
                       /\ fn_result # <<>>
                       /\ IsPrefix(rstrip(re_sub_tags(survivors[1])), fn_result[1])
                       /\ Len(survivors) = 1 => fn_result = <<re_sub_tags(survivors[1])>>

\* a leading continuation line followed by a line that starts a new entry
C25_Witness ==
    /\ fn = "clean_up"
    /\ exc = "none"
    /\ in_lines = <<<<"b">>, <<"A", "b">>>>
    /\ fn_result = <<<<"b">>, <<"A", "b">>>>

(***************************************************************************)
(* C26: the library's clean_up is total: for every sequence of raw lines,  *)
(* also when a continuation line is followed by further surviving lines    *)
(* and when a line consists only of a markup tag, it returns a list and    *)
(* raises nothing.                                                         *)
(***************************************************************************)
C26_CleanUpTotal ==
    fn \in {"clean_up", "process_files"} => exc = "none"

\* the position in chunks of the batch an event of the log belongs to (0 for a pacing wait)
BatchIndex(e) ==
    IF \E k \in DOMAIN chunks : chunks[k] = e.batch
    THEN CHOOSE k \in DOMAIN chunks : chunks[k] = e.batch
    ELSE 0

(***************************************************************************)
(* C27: the library's translate_dictionary translates the batches strictly *)
(* in order and stops at the first persistent failure: a probe or call for *)
(* batch k+1 is made only after translate_chunk has returned for batch k,  *)
(* which then has not failed twice; once a batch has failed both attempts  *)
(* nothing more happens: no probe, no call, no wait for any later batch.   *)
(***************************************************************************)
C27_InOrderStopAtFailure ==
    variant = "lib" =>
        /\ \A i, j \in DOMAIN log :
               (i < j /\ BatchIndex(log[i]) > 0 /\ BatchIndex(log[j]) > 0) =>
                   BatchIndex(log[i]) <= BatchIndex(log[j])
        /\ \A j \in DOMAIN log :
               BatchIndex(log[j]) > 1 =>
                   LET before == chunks[BatchIndex(log[j]) - 1]
                   IN  /\ \E i \in 1..(j - 1) : log[i].ev = "return" /\ log[i].batch = before
                       /\ Count(ChunkEvents(before), "call", FALSE) < 2
        /\ \A k \in DOMAIN chunks :
               Count(ChunkEvents(chunks[k]), "call", FALSE) >= 2 =>
                   /\ log[Len(log)].ev = "raise"
                   /\ BatchIndex(log[Len(log)]) = k
                   /\ pc \in {"raised", "exited"}

\* the first of two batches failed both attempts: the second is never attempted
C27_Witness ==
    /\ variant = "lib"
    /\ pc = "raised"
    /\ Len(chunks) = 2
    /\ BatchIndex(log[Len(log)]) = 1
    /\ \A i \in DOMAIN log : BatchIndex(log[i]) # 2

(***************************************************************************)
(* Specification of one run() of the library on a controller that holds    *)
(* its words, every probe, service call and sleep coming to an end         *)
(***************************************************************************)
InitRun ==
    /\ variant = "lib"
    /\ config \in [min_word_size : {1},
                   min_appearance : 1..MaxMinAppearance,
                   chunk_size : 1..MaxChunkSize]
    /\ all_words \in SeqsUpTo(Tokens, MaxWords)
    /\ output = <<>>
    /\ pc = "idle"
    /\ words_dict = <<>>
    /\ chunks = <<>>
    /\ chunk_idx = 1
    /\ attempt = 0
    /\ translated_dict = EmptyDict
    /\ log = <<>>
    /\ output_before = <<>>
    /\ exc = "none"
    /\ caller_exc = "none"
    /\ response = "unset"
    /\ request = NoRequest
    /\ controllers = <<>>
    /\ requests = <<>>
    /\ disk = <<>>
    /\ in_lines = <<>>
    /\ fn = "none"
    /\ fn_result = <<>>

\* one attempt of translate_chunk: the probe and, if the host is reachable, the call
translate_text_attempt ==
    \/ translate_text_offline
    \/ \E resp \in CurrentResponses : translate_text_returns(resp)
    \/ translate_text_raises

NextRun ==
    \/ run
    \/ translate_text_attempt
    \/ translate_chunk_backoff
    \/ translate_dictionary_pace

\* a step of translate_dictionary: the end of an attempt or of a sleep
translate_dictionary_step ==
    \/ translate_text_attempt
    \/ translate_chunk_backoff
    \/ translate_dictionary_pace

\* every probe, service call and sleep comes to an end
SpecRun == InitRun /\ [][NextRun]_vars /\ WF_vars(translate_dictionary_step)

\* translate_dictionary has returned or raised
Terminated == pc \in {"done", "raised"}

(***************************************************************************)
(* C28: provided every probe and service call returns or fails,            *)
(* translate_dictionary always terminates, by returning or by raising,     *)
(* whatever the pattern of failures; the retry budget is per batch: no     *)
(* batch gets more than two attempts, so at most 2 x (number of batches)   *)
(* attempts are made in all.                                               *)
(***************************************************************************)
C28_Terminates ==
    /\ [](/\ \A k \in DOMAIN chunks : CountKind(ChunkEvents(chunks[k]), "probe") <= 2
          /\ CountKind(log, "probe") <= 2 * Len(chunks))
    /\ (pc \in {"attempt", "backoff", "pace"}) ~> Terminated

\* every one of two batches needed its second attempt
C28_Witness ==
    /\ pc = "done"
    /\ Len(chunks) = 2
    /\ CountKind(log, "probe") = 4
    /\ CountKind(log, "backoff") = 2

\* the word of an output row "count, word, translation"
RowWord(row) == strip(ThreeItems(row)[2])

(***************************************************************************)
(* C29: after any sequence of input_text / input_files calls and           *)
(* successful run() calls on one controller, output holds exactly one row  *)
(* per entry of the frequency map of the current all_words: a second run() *)
(* leaves no row of the earlier run in output, and no word is in more than *)
(* one row.                                                                *)
(***************************************************************************)
C29_OneRowPerEntry ==
    (variant = "lib" /\ pc \in {"done", "json"}) =>
        LET current == create_dictionary(all_words, config.min_appearance)
        IN  /\ Len(output) = Len(current)
            /\ \A i \in DOMAIN output :
                   /\ RowWord(output[i]) = current[i][1]
                   /\ strip(ThreeItems(output[i])[1]) = str_int(current[i][2])
            /\ \A i, j \in DOMAIN output :
                   RowWord(output[i]) = RowWord(output[j]) => i = j

\* index of the first occurrence of word w in the token list
FirstOccurrence(w, words) ==
    CHOOSE i \in DOMAIN words :
        words[i] = w /\ \A j \in DOMAIN words : words[j] = w => i <= j

(***************************************************************************)
(* C30: create_dictionary never fails on ties and is a function of the     *)
(* token list and the threshold: the frequency map a run stores is the one *)
(* recomputed from the same tokens and threshold, and among words of equal *)
(* count the word whose first occurrence in the token list is earlier      *)
(* comes first (library and CLI).                                          *)
(***************************************************************************)
C30_TiesByFirstOccurrence ==
    pc # "idle" =>
        /\ words_dict = IF variant = "lib"
                        THEN create_dictionary(all_words, config.min_appearance)
                        ELSE cli_create_dictionary(all_words, config.min_appearance)
        /\ \A i, j \in DOMAIN words_dict :
               (i < j /\ words_dict[i][2] = words_dict[j][2]) =>
                   FirstOccurrence(words_dict[i][1], all_words)
                       < FirstOccurrence(words_dict[j][1], all_words)

C30_Witness ==
    /\ pc # "idle"
    /\ Len(all_words) = 3
    /\ Len(words_dict) = 3
    /\ \A i \in DOMAIN words_dict : words_dict[i][2] = 1
    /\ all_words[1] = words_dict[1][1]
    /\ all_words[3] = words_dict[3][1]


====
